---------------------------- MODULE Spec2Model ----------------------------
(***************************************************************************)
(* A model of bithumbtradekit: the request signer and the transport of     *)
(* client.py, the account reader of account.py, the order manager of       *)
(* trading.py and the market reader of market.py.                          *)
(*                                                                         *)
(* Python values are modelled as follows.                                  *)
(*   - None, int and float are tagged records; a float is held in tenths   *)
(*     (0.5 is PyFloat(5)), which is exact for every number of the model.  *)
(*   - A parsed JSON value is a record [jt, items, obj]: a list carries    *)
(*     its items, an object its key/value function.  A Python dict that    *)
(*     the code builds and returns is the same kind of value.              *)
(*   - A dict used as request parameters keeps its insertion order: it is  *)
(*     a sequence of <<key, value>> pairs with distinct keys.              *)
(*   - The outcome of a call is Return(v) or Raise(e).                     *)
(*   - SHA-512 and the JWT signature are symbolic terms over their input   *)
(*     (two digests are equal exactly when their inputs are).              *)
(***************************************************************************)
EXTENDS Integers, Sequences, FiniteSets, TLC

VARIABLES
    avg_buy_prices, \* Account.avg_buy_prices: currency -> cached average price
    http_calls,     \* outbound HTTP calls issued by BithumbClient
    invocations,    \* completed invocations of BithumbClient.get/post/delete
    last,           \* the operation that has just returned: its name, its
                    \* inputs, the request sent and the outcome
    signed          \* the _create_headers calls made directly: for each its
                    \* params, and the header and the params it left

vars == <<avg_buy_prices, http_calls, invocations, last, signed>>

---------------------------------------------------------------------------
(* Bounds of the model *)

\* The longest account list the exchange answers with.
MaxAccounts == 2
\* Transport invocations after which the model stops.
MaxCalls == 2
\* The largest number, in tenths, that a numeric string of the model spells.
MaxTenths == 20
\* Direct _create_headers calls the model records.
MaxSigned == 2
\* The most pairs a parameter dict of the model holds.
MaxParams == 2
\* The most raw candles the exchange answers with.
MaxCandles == 2
\* The days the candles of the exchange are dated.
MaxDay == 2
\* The wall clock of a signing, in half milliseconds, goes up to this.
MaxHalfMillis == 3

---------------------------------------------------------------------------
(* Python values *)

PyNone == [t |-> "None", v |-> 0]
PyInt(n) == [t |-> "int", v |-> n]
PyFloat(tenths) == [t |-> "float", v |-> tenths]

\* The numeric value of an int or a float, in tenths (Python compares by value).
Tenths(x) == IF x.t = "int" THEN 10 * x.v ELSE x.v

Return(v) == [raised |-> FALSE, value |-> v]
Raise(type, text) == [raised |-> TRUE, exc |-> [type |-> type, text |-> text]]

\* The decimal spelling Python's repr gives a float: 0.5, 1.0.
FloatRepr(tenths) == ToString(tenths \div 10) \o "." \o ToString(tenths % 10)

\* str(x) of an int or a float.
str(x) == IF x.t = "int" THEN ToString(x.v) ELSE FloatRepr(x.v)

\* The numeric strings that float() reads as the number n tenths.
Spellings(n) ==
    {FloatRepr(n)} \cup (IF n % 10 = 0 THEN {ToString(n \div 10)} ELSE {})

NumericStrings == UNION {Spellings(n) : n \in 0..MaxTenths}

\* float(s) of a numeric string.
FloatTable ==
    [s \in NumericStrings |-> CHOOSE n \in 0..MaxTenths : s \in Spellings(n)]
float(s) == PyFloat(FloatTable[s])

\* float(n) of an int.
float_of_int(n) == PyFloat(10 * n)

---------------------------------------------------------------------------
(* JSON values and dicts *)

NoObj == <<>>
JList(items) == [jt |-> "list", items |-> items, obj |-> NoObj]
JObject(o) == [jt |-> "object", items |-> <<>>, obj |-> o]
\* A body that is not JSON at all: response.json() cannot parse it.
NotJson == [jt |-> "invalid", items |-> <<>>, obj |-> NoObj]

\* Python's `key in value` for a dict (its keys) or a list of records (its
\* elements, none of which equals a string).
contains(value, key) == value.jt = "object" /\ key \in DOMAIN value.obj

\* The uniform error record {"error": description}.
ErrorRecord(description) == JObject([error |-> description])

---------------------------------------------------------------------------
(* client.py: the signer *)

\* Request parameters: None, or a dict as its <<key, value>> pairs in
\* insertion order.  A value is a str or an int.
NoneParams == [none |-> TRUE, items |-> <<>>]
Dict(items) == [none |-> FALSE, items |-> items]
PyStr(s) == [t |-> "str", s |-> s]

\* Python's truth value of an Optional[Dict]: None and {} are false.
truthy(params) == ~params.none /\ Len(params.items) > 0

\* str(v) of a parameter value.
str_of(value) == IF value.t = "str" THEN value.s ELSE str(value)

\* urllib.parse.quote_plus on the strings of the model: a space becomes "+",
\* a reserved character its percent escape, every other character stays.
quote_plus(s) ==
    CASE s = "KRW BTC" -> "KRW+BTC"
      [] s = "a&b=c" -> "a%26b%3Dc"
      [] OTHER -> s

RECURSIVE join_amp(_)
join_amp(parts) ==
    IF Len(parts) = 0 THEN ""
    ELSE IF Len(parts) = 1 THEN parts[1]
    ELSE parts[1] \o "&" \o join_amp(Tail(parts))

\* The pairs of a dict sorted by key.
RECURSIVE sorted_items(_)
sorted_items(items) ==
    IF Len(items) = 0 THEN <<>>
    ELSE LET first == CHOOSE i \in 1..Len(items) :
                         \A j \in 1..Len(items) :
                            Len(items[i][1]) < Len(items[j][1])
                            \/ (Len(items[i][1]) = Len(items[j][1]) /\ i <= j)
             rest == SelectSeq([k \in 1..Len(items) |-> <<k, items[k]>>],
                               LAMBDA e : e[1] # first)
         IN <<items[first]>> \o sorted_items([k \in 1..Len(rest) |-> rest[k][2]])

\* A variant that encodes the pairs in a canonical order of their keys.
urlencode_canonical(params) ==
    LET items == sorted_items(params.items)
    IN join_amp([i \in 1..Len(items) |->
           quote_plus(items[i][1]) \o "=" \o quote_plus(str_of(items[i][2]))])

\* urllib.parse.urlencode(params): key=value joined by "&", in the order the
\* dict iterates, which is its insertion order.
urlencode(params) ==
    join_amp([i \in 1..Len(params.items) |->
        quote_plus(params.items[i][1]) \o "=" \o
        quote_plus(str_of(params.items[i][2]))])

\* hashlib.sha512 of the encoded query, as a hex digest (a symbolic term).
sha512_hexdigest(query) == <<"sha512", query>>

\* round(time.time() * 1000) of a clock read in half milliseconds: Python
\* rounds a half to the even neighbour.
round_millis(half_millis) ==
    LET q == half_millis \div 2
    IN IF half_millis % 2 = 0 THEN q ELSE IF q % 2 = 0 THEN q ELSE q + 1

\* A variant that tests `params is not None` in place of `params`.
query_claims_not_none(params) ==
    IF ~params.none
    THEN [query_hash |-> sha512_hexdigest(urlencode(params)),
          query_hash_alg |-> "SHA512"]
    ELSE <<>>

\* The claims that depend on the parameters (client.py lines 39-50).
query_claims(params) ==
    IF truthy(params)
    THEN [query_hash |-> sha512_hexdigest(urlencode(params)),
          query_hash_alg |-> "SHA512"]
    ELSE <<>>

\* jwt.encode(payload, key): the claims and their keyed signature.
jwt_encode(payload, key) == [claims |-> payload, alg |-> "HS256", key |-> key]

access_key == "ACCESS"
secret_key == "SECRET"

\* BithumbClient._create_headers: the header, and the params mapping as the
\* call leaves it.
_create_headers(params, nonce, half_millis) ==
    LET payload == [access_key |-> access_key,
                    nonce |-> nonce,
                    timestamp |-> round_millis(half_millis)] @@ query_claims(params)
    IN [headers |-> [Authorization |-> <<"Bearer", jwt_encode(payload, secret_key)>>],
        params |-> params]

---------------------------------------------------------------------------
(* client.py: the transport *)

api_url == "https://api.bithumb.com"

\* What the network and the exchange do with one HTTP call.
NetworkFailure(kind) == [net |-> kind, status |-> 0, body |-> NotJson]
Response(status, body) == [net |-> "ok", status |-> status, body |-> body]

\* requests.exceptions.RequestException and its subclasses.
IsRequestException(type) ==
    type \in {"Timeout", "ConnectionError", "HTTPError", "JSONDecodeError"}

\* Response.raise_for_status raises HTTPError for a 4xx or 5xx status.
raise_for_status(status) == 400 <= status /\ status < 600

\* The try block of get/post/delete: the call, raise_for_status, json().
attempt(http) ==
    IF http.net = "timeout" THEN Raise("Timeout", "timed out")
    ELSE IF http.net = "connection" THEN Raise("ConnectionError", "connection failed")
    ELSE IF raise_for_status(http.status)
         THEN Raise("HTTPError", ToString(http.status) \o " Error")
    ELSE IF http.body = NotJson THEN Raise("JSONDecodeError", "Expecting value")
    ELSE Return(http.body)

\* A variant whose except clause names only the connection-level errors.
except_connection_errors(r) ==
    IF r.raised /\ r.exc.type \in {"Timeout", "ConnectionError"}
    THEN Return(ErrorRecord(r.exc.text))
    ELSE r

\* The except clause of get/post/delete: a RequestException becomes the
\* error record, anything else propagates.
except_request_exception(r) ==
    IF r.raised /\ IsRequestException(r.exc.type)
    THEN Return(ErrorRecord(r.exc.text))
    ELSE r

\* A variant that repeats the call once when the first attempt fails.
calls_issued_with_retry(http) == IF attempt(http).raised THEN 2 ELSE 1

\* The HTTP calls one try block issues: the single requests.get / post /
\* delete call, whatever its outcome.
calls_issued(http) == 1

\* BithumbClient.get: the request sent, the calls issued and the outcome.
get(endpoint, params, http) ==
    [sent |-> [method |-> "GET", url |-> api_url \o endpoint,
               params |-> params, json |-> NoneParams, signed |-> params],
     calls |-> calls_issued(http),
     out |-> except_request_exception(attempt(http))]

\* BithumbClient.post: the data is signed as the parameters and sent as JSON.
post(endpoint, data, http) ==
    [sent |-> [method |-> "POST", url |-> api_url \o endpoint,
               params |-> NoneParams, json |-> data, signed |-> data],
     calls |-> calls_issued(http),
     out |-> except_request_exception(attempt(http))]

\* BithumbClient.delete
delete(endpoint, params, http) ==
    [sent |-> [method |-> "DELETE", url |-> api_url \o endpoint,
               params |-> params, json |-> NoneParams, signed |-> params],
     calls |-> calls_issued(http),
     out |-> except_request_exception(attempt(http))]

---------------------------------------------------------------------------
(* The exchange: what it may answer *)

Currencies == {"KRW", "BTC"}
BalanceStrings == {"0", "0.5"}
AvgPriceStrings == {"0", "1.5", "2"}

\* A raw balance object of /v1/accounts; avg_buy_price may be missing.
AccountRecords ==
    [currency : Currencies, balance : BalanceStrings]
    \cup [currency : Currencies, balance : BalanceStrings,
          avg_buy_price : AvgPriceStrings]
    \cup [currency : Currencies, balance : {"0.5"}, locked : {"1"}]

AccountLists == UNION {[1..n -> AccountRecords] : n \in 0..MaxAccounts}

\* Objects the exchange may answer in place of the expected payload: a
\* status/message error object (with or without a message), an object that
\* reports success, an object with an error key, and the empty object.
ApiErrorObjects ==
    {JObject([status |-> "5100", message |-> "Bad Request"]),
     JObject([status |-> "5600"])}
OtherObjects ==
    {JObject([status |-> "0000", message |-> "ok"]),
     JObject([error |-> "invalid_access_key"]),
     JObject(NoObj)}

\* The ways one HTTP call ends, for an endpoint whose payloads are `bodies`:
\* a network failure, an error status (with or without an error object), or
\* a 2xx/3xx response with a payload, a misplaced object or a body that is
\* not JSON.
Outcomes(bodies) ==
    {NetworkFailure("timeout"), NetworkFailure("connection")}
    \cup {Response(status, NotJson) : status \in {200, 304, 404, 500}}
    \cup {Response(200, b) : b \in bodies \cup ApiErrorObjects \cup OtherObjects}
    \cup {Response(300, b) : b \in ApiErrorObjects \cup {JList(<<>>)}}
    \cup {Response(400, b) : b \in ApiErrorObjects}

---------------------------------------------------------------------------
(* account.py *)

\* Iterating a parsed value: a list gives its items, a dict its keys.
\* j["currency"] on a key (a str) raises TypeError.
iteration_raises(value) == value.jt = "object" /\ DOMAIN value.obj # {}

\* Account.get_account_info, given what client.get did.
get_account_info(got) ==
    IF got.raised THEN Return(ErrorRecord(got.exc.text))
    ELSE IF contains(got.value, "error")
         THEN Return(ErrorRecord(got.value.obj.error))
    ELSE Return(got.value)

\* asset.get("avg_buy_price", 0), then float().
avg_buy_price_of(asset) ==
    IF "avg_buy_price" \in DOMAIN asset THEN float(asset.avg_buy_price)
    ELSE float_of_int(0)

\* A variant that stores whatever the exchange reports, zero included.
update_avg_buy_prices_unguarded(prices, coin, balance, avg_price) ==
    [c \in DOMAIN prices \cup {coin} |->
        IF c = coin THEN avg_price ELSE prices[c]]

\* The cache update of get_coin_balance (account.py lines 89-90).
update_avg_buy_prices(prices, coin, balance, avg_price) ==
    IF Tenths(avg_price) > 0 /\ Tenths(balance) > 0
    THEN [c \in DOMAIN prices \cup {coin} |->
             IF c = coin THEN avg_price ELSE prices[c]]
    ELSE prices

\* The body of get_coin_balance's try block after the fetch.
coin_balance_of(coin, account_info, prices) ==
    IF contains(account_info, "error")
    THEN [out |-> Return(<<PyNone, PyNone>>), prices |-> prices]
    ELSE IF iteration_raises(account_info)
    THEN [out |-> Raise("TypeError", "string indices must be integers"),
          prices |-> prices]
    ELSE LET coin_info == SelectSeq(account_info.items,
                                    LAMBDA j : j.currency = coin)
         IN IF Len(coin_info) > 0
            THEN LET balance == float(coin_info[1].balance)
                     avg_price == avg_buy_price_of(coin_info[1])
                 IN [out |-> Return(<<balance, avg_price>>),
                     prices |-> update_avg_buy_prices(prices, coin, balance,
                                                      avg_price)]
            ELSE [out |-> Return(<<PyInt(0), PyInt(0)>>), prices |-> prices]

\* A variant that answers an error as if the coin were not held.
get_coin_balance_collapsed(coin, got, prices) ==
    LET info == get_account_info(got)
        r == coin_balance_of(coin, info.value, prices)
    IN IF r.out.raised \/ r.out.value = <<PyNone, PyNone>>
       THEN [out |-> Return(<<PyInt(0), PyInt(0)>>), prices |-> r.prices]
       ELSE r

\* Account.get_coin_balance: any exception becomes (None, None).
get_coin_balance(coin, got, prices) ==
    LET info == get_account_info(got)
        r == coin_balance_of(coin, info.value, prices)
    IN IF r.out.raised
       THEN [out |-> Return(<<PyNone, PyNone>>), prices |-> r.prices]
       ELSE r

\* The body of get_krw_balance's try block after the fetch.
krw_balance_of(account_info) ==
    IF contains(account_info, "error") THEN Return(PyInt(0))
    ELSE IF iteration_raises(account_info)
    THEN Raise("TypeError", "string indices must be integers")
    ELSE LET cash == SelectSeq(account_info.items,
                               LAMBDA j : j.currency = "KRW")
         IN IF Len(cash) > 0 THEN Return(float(cash[1].balance))
            ELSE Return(PyInt(0))

\* Account.get_krw_balance: any exception becomes 0.
get_krw_balance(got) ==
    LET r == krw_balance_of(get_account_info(got).value)
    IN IF r.raised THEN Return(PyInt(0)) ELSE r

\* asset.get("locked", 0), then float().
locked_of(asset) ==
    IF "locked" \in DOMAIN asset THEN float(asset.locked) ELSE float_of_int(0)

\* One Balance Record of get_all_balances.
balance_record(asset) ==
    [currency |-> asset.currency,
     balance |-> float(asset.balance),
     avg_buy_price |-> avg_buy_price_of(asset),
     locked |-> locked_of(asset)]

\* A variant whose filter is balance >= 0.
get_all_balances_unfiltered(got) ==
    LET account_info == get_account_info(got).value
    IN IF contains(account_info, "error") THEN Return(<<>>)
       ELSE IF iteration_raises(account_info)
       THEN Raise("TypeError", "string indices must be integers")
       ELSE LET kept == SelectSeq(account_info.items,
                           LAMBDA asset : Tenths(float(asset.balance)) >= 0)
            IN Return([i \in 1..Len(kept) |-> balance_record(kept[i])])

\* Account.get_all_balances: no try block, so an exception propagates.
get_all_balances(got) ==
    LET account_info == get_account_info(got).value
    IN IF contains(account_info, "error") THEN Return(<<>>)
       ELSE IF iteration_raises(account_info)
       THEN Raise("TypeError", "string indices must be integers")
       ELSE LET kept == SelectSeq(account_info.items,
                           LAMBDA asset : Tenths(float(asset.balance)) > 0)
            IN Return([i \in 1..Len(kept) |-> balance_record(kept[i])])

---------------------------------------------------------------------------
(* trading.py *)

Markets == {"KRW-BTC"}
\* volume and price arguments: None, an int or a float.
Volumes == {PyFloat(5), PyInt(1)}
Prices == {PyInt(50000000), PyFloat(15)}
\* The three order kinds, and one the exchange does not know.
OrdTypes == {"limit", "price", "market", "best"}
OrderUuids == {"C0101000000001799653"}

\* A variant that adds volume and price whatever the order type.
order_data_any_kind(market, side, volume, price, ord_type) ==
    Dict(<<<<"market", PyStr(market)>>, <<"side", PyStr(side)>>,
           <<"ord_type", PyStr(ord_type)>>>>
         \o (IF volume # PyNone
             THEN <<<<"volume", PyStr(str(volume))>>>> ELSE <<>>)
         \o (IF price # PyNone
             THEN <<<<"price", PyStr(str(price))>>>> ELSE <<>>))

\* A dict literal followed by the conditional data["volume"] / data["price"]
\* assignments of _send_order, in the order the code makes them.
order_data(market, side, volume, price, ord_type) ==
    LET data == <<<<"market", PyStr(market)>>, <<"side", PyStr(side)>>,
                  <<"ord_type", PyStr(ord_type)>>>>
        with_volume == IF volume # PyNone
                       THEN <<<<"volume", PyStr(str(volume))>>>> ELSE <<>>
        with_price == IF price # PyNone
                      THEN <<<<"price", PyStr(str(price))>>>> ELSE <<>>
    IN Dict(IF ord_type = "limit" THEN data \o with_volume \o with_price
            ELSE IF ord_type = "price" THEN data \o with_price
            ELSE IF ord_type = "market" THEN data \o with_volume
            ELSE data)

\* Trading._send_order
_send_order(market, side, volume, price, ord_type, http) ==
    post("/v1/orders", order_data(market, side, volume, price, ord_type), http)

\* Trading.place_buy_order
place_buy_order(market, volume, price, ord_type, http) ==
    _send_order(market, "bid", volume, price, ord_type, http)

\* Trading.place_sell_order
place_sell_order(market, volume, price, ord_type, http) ==
    _send_order(market, "ask", volume, price, ord_type, http)

\* Trading.cancel_order
cancel_order(order_uuid, http) ==
    delete("/v1/order", Dict(<<<<"uuid", PyStr(order_uuid)>>>>), http)

\* A variant whose default for a missing state is "error".
get_order_status_default_error(got) ==
    IF got.raised THEN got
    ELSE IF contains(got.value, "error") THEN Return("error")
    ELSE IF got.value.jt # "object"
    THEN Raise("AttributeError", "'list' object has no attribute 'get'")
    ELSE IF "state" \in DOMAIN got.value.obj THEN Return(got.value.obj.state)
    ELSE Return("error")

\* Trading.get_order_status, given what client.get did: result.get on a
\* value that is no dict raises AttributeError.
get_order_status(got) ==
    IF got.raised THEN got
    ELSE IF contains(got.value, "error") THEN Return("error")
    ELSE IF got.value.jt # "object"
    THEN Raise("AttributeError", "'list' object has no attribute 'get'")
    ELSE IF "state" \in DOMAIN got.value.obj THEN Return(got.value.obj.state)
    ELSE Return("unknown")

\* The params of Trading.get_orders: market is None, empty or a code.
orders_params(market, state) ==
    Dict(<<<<"state", PyStr(state)>>>>
         \o (IF market # PyNone /\ market # PyStr("")
             THEN <<<<"market", market>>>> ELSE <<>>))

\* Trading.get_orders
get_orders(market, state, http) == get("/v1/orders", orders_params(market, state), http)

\* Trading.get_order_chance
get_order_chance(market, http) ==
    get("/v1/orders/chance", Dict(<<<<"market", PyStr(market)>>>>), http)

\* What the order endpoints answer.
OrderObjects ==
    {JObject([uuid |-> u, state |-> st]) : u \in OrderUuids,
                                           st \in {"wait", "done", "cancel"}}
    \cup {JObject([uuid |-> u]) : u \in OrderUuids}
OrderLists == {JList(<<>>)} \cup {JList(<<o.obj>>) : o \in OrderObjects}
ChanceObjects == {JObject([bid_fee |-> "0.0004", ask_fee |-> "0.0004"])}

---------------------------------------------------------------------------
(* market.py *)

Coins == {"KRW-BTC", "krw-btc"}

\* str.upper on the market codes of the model.
upper(coin) == CASE coin = "krw-btc" -> "KRW-BTC" [] OTHER -> coin

\* requests.get outside any try block: a network failure propagates.
requests_get(http) ==
    IF http.net = "timeout" THEN Raise("Timeout", "timed out")
    ELSE IF http.net = "connection" THEN Raise("ConnectionError", "connection failed")
    ELSE Return(http)

market_all_url == "https://api.bithumb.com/v1/market/all?isDetails=false"
ticker_url(coin) == "https://api.bithumb.com/v1/ticker?markets=" \o upper(coin)

\* MarketData.get_market_codes: response.text, whatever the status.
get_market_codes(http) ==
    LET response == requests_get(http)
    IN IF response.raised THEN response ELSE Return(http.body)

TickerLists ==
    {JList(<<>>),
     JList(<<[market |-> "KRW-BTC", trade_price |-> PyInt(50000000)]>>),
     JList(<<[market |-> "KRW-BTC"]>>)}

\* MarketData.get_current_price: json.loads, then data[0]["trade_price"].
get_current_price(coin, http) ==
    LET response == requests_get(http)
        data == http.body
    IN IF response.raised THEN response
       ELSE IF data = NotJson THEN Raise("JSONDecodeError", "Expecting value")
       ELSE IF data.jt = "object" THEN Raise("KeyError", "0")
       ELSE IF Len(data.items) = 0
            THEN Raise("IndexError", "list index out of range")
       ELSE IF "trade_price" \notin DOMAIN data.items[1]
            THEN Raise("KeyError", "trade_price")
       ELSE Return(data.items[1].trade_price)

\* A candle's date as the exchange writes it, and pd.to_datetime of it: the
\* days of January 2024, at 09:00 KST.
DateString(day) == "2024-01-0" \o ToString(day) \o "T09:00:00"
DateStrings == {DateString(day) : day \in 1..MaxDay}
DatetimeTable ==
    [s \in DateStrings |-> CHOOSE day \in 1..MaxDay : DateString(day) = s]
to_datetime(s) == [t |-> "datetime", v |-> DatetimeTable[s]]

NaN == [t |-> "nan", v |-> 0]

\* The raw candle objects of the exchange: the five mandatory fields and
\* the market, and none, one or all of the optional fields.
BaseCandle(day) ==
    [market |-> "KRW-BTC",
     candle_date_time_kst |-> DateString(day),
     opening_price |-> PyInt(100 + day),
     trade_price |-> PyInt(101 + day),
     high_price |-> PyInt(102 + day),
     low_price |-> PyInt(99 + day)]
RawCandles ==
    {BaseCandle(day) : day \in 1..MaxDay}
    \cup {BaseCandle(day) @@ [candle_acc_trade_volume |-> PyInt(7)] :
            day \in 1..MaxDay}
    \cup {BaseCandle(day) @@ [candle_acc_trade_volume |-> PyInt(7),
                              candle_acc_trade_price |-> PyInt(700),
                              change_rate |-> PyInt(0)] : day \in 1..MaxDay}
CandleLists == {JList(l) : l \in UNION {[1..n -> RawCandles] : n \in 0..MaxCandles}}

\* df.rename(columns=...): the raw name of each Candle Record column.
raw_name(column) ==
    CASE column = "date" -> "candle_date_time_kst"
      [] column = "open" -> "opening_price"
      [] column = "close" -> "trade_price"
      [] column = "high" -> "high_price"
      [] column = "low" -> "low_price"
      [] column = "volume" -> "candle_acc_trade_volume"
      [] column = "value" -> "candle_acc_trade_price"
      [] column = "change_rate" -> "change_rate"

base_columns == <<"date", "open", "close", "high", "low">>
optional_columns == <<"change_rate", "volume", "value">>

\* pd.DataFrame(data).columns: every key of every item.
df_columns(items) == UNION {DOMAIN items[i] : i \in 1..Len(items)}

\* The columns kept: the base ones and the optional ones the frame has.
selected_columns(items) ==
    base_columns \o SelectSeq(optional_columns,
                              LAMBDA c : raw_name(c) \in df_columns(items))

\* One row of the frame over `columns`: a key an item lacks reads NaN, and
\* the date is parsed.
frame_row(item, columns) ==
    [c \in {columns[i] : i \in 1..Len(columns)} |->
        IF raw_name(c) \notin DOMAIN item THEN NaN
        ELSE IF c = "date" THEN to_datetime(item[raw_name(c)])
        ELSE item[raw_name(c)]]

\* df.sort_values("date"): every ascending order of the rows (the default
\* sort is not stable, so rows of equal date come in any order).
sort_values(rows) ==
    {[i \in 1..Len(rows) |-> rows[p[i]]] :
        p \in {q \in Permutations(1..Len(rows)) :
                 \A i \in 1..(Len(rows) - 1) :
                    rows[q[i]].date.v <= rows[q[i + 1]].date.v}}

\* reset_index(drop=True): the dense index 0..n-1.
reset_index(rows) == [i \in 1..Len(rows) |-> i - 1]

\* Lines 70-92 of _get_candle_data: the outcomes of shaping a list.
normalize(items) ==
    IF \E i \in 1..Len(base_columns) :
          raw_name(base_columns[i]) \notin df_columns(items)
    THEN {Raise("KeyError", <<"not in index">>)}
    ELSE LET columns == selected_columns(items)
             rows == [i \in 1..Len(items) |-> frame_row(items[i], columns)]
         IN {Return([columns |-> columns, index |-> reset_index(sorted),
                     rows |-> sorted]) : sorted \in sort_values(rows)}

ApiErrorPrefix == "API error: "
ShapeErrorPrefix == "API response is not a list: "

\* data.get("message", "Unknown error")
message_of(data) ==
    IF "message" \in DOMAIN data.obj THEN data.obj.message ELSE "Unknown error"

\* A variant that tests the shape before the status.
_get_candle_data_shape_first(http) ==
    LET response == requests_get(http)
        data == http.body
    IN IF response.raised THEN {response}
       ELSE IF raise_for_status(http.status)
            THEN {Raise("HTTPError", <<ToString(http.status) \o " Error">>)}
       ELSE IF data = NotJson THEN {Raise("JSONDecodeError", <<"Expecting value">>)}
       ELSE IF data.jt # "list"
            THEN {Raise("Exception", <<ShapeErrorPrefix, data>>)}
       ELSE normalize(data.items)

\* MarketData._get_candle_data: the set of its possible outcomes.
_get_candle_data(http) ==
    LET response == requests_get(http)
        data == http.body
    IN IF response.raised THEN {response}
       ELSE IF raise_for_status(http.status)
            THEN {Raise("HTTPError", <<ToString(http.status) \o " Error">>)}
       ELSE IF data = NotJson THEN {Raise("JSONDecodeError", <<"Expecting value">>)}
       ELSE IF data.jt = "object" /\ "status" \in DOMAIN data.obj
               /\ data.obj.status # "0000"
            THEN {Raise("Exception", <<ApiErrorPrefix, message_of(data)>>)}
       ELSE IF data.jt # "list"
            THEN {Raise("Exception", <<ShapeErrorPrefix, data>>)}
       ELSE normalize(data.items)

\* params = {"market": coin.upper(), "count": count}
candle_params(coin, count) ==
    Dict(<<<<"market", PyStr(upper(coin))>>, <<"count", PyInt(count)>>>>)

\* The endpoint of each candle kind.
candle_url(kind, unit) ==
    IF kind = "minutes"
    THEN "https://api.bithumb.com/v1/candles/minutes/" \o ToString(unit)
    ELSE "https://api.bithumb.com/v1/candles/" \o kind

\* MarketData.get_minutes_data / get_daily_data / get_weekly_data /
\* get_monthly_data
get_minutes_data(http) == _get_candle_data(http)
get_daily_data(http) == _get_candle_data(http)
get_weekly_data(http) == _get_candle_data(http)
get_monthly_data(http) == _get_candle_data(http)

---------------------------------------------------------------------------
(* The state machine *)

\* No operation is in progress: the caller holds no result.
Idle == [op |-> "idle"]

Init ==
    /\ avg_buy_prices = <<>>
    /\ http_calls = 0
    /\ invocations = 0
    /\ last = Idle
    /\ signed = <<>>

\* The caller may start an operation that uses the transport.
Ready == last = Idle /\ invocations < MaxCalls

\* One invocation of the transport on behalf of operation `op`.
Transported(t, op, args, http, out) ==
    /\ http_calls' = http_calls + t.calls
    /\ invocations' = invocations + 1
    /\ last' = [op |-> op, args |-> args, http |-> http, sent |-> t.sent,
                got |-> t.out, out |-> out]

AccountOutcomes == Outcomes({JList(l) : l \in AccountLists})

Account_get_account_info ==
    /\ Ready
    /\ \E http \in AccountOutcomes :
           LET t == get("/v1/accounts", NoneParams, http)
           IN /\ Transported(t, "get_account_info", <<>>, http,
                             get_account_info(t.out))
              /\ UNCHANGED <<avg_buy_prices, signed>>

Account_get_krw_balance ==
    /\ Ready
    /\ \E http \in AccountOutcomes :
           LET t == get("/v1/accounts", NoneParams, http)
           IN /\ Transported(t, "get_krw_balance", <<>>, http,
                             get_krw_balance(t.out))
              /\ UNCHANGED <<avg_buy_prices, signed>>

Account_get_coin_balance ==
    /\ Ready
    /\ \E coin \in Currencies, http \in AccountOutcomes :
           LET t == get("/v1/accounts", NoneParams, http)
               r == get_coin_balance(coin, t.out, avg_buy_prices)
           IN /\ Transported(t, "get_coin_balance", <<coin>>, http, r.out)
              /\ avg_buy_prices' = r.prices
              /\ UNCHANGED signed

Account_get_all_balances ==
    /\ Ready
    /\ \E http \in AccountOutcomes :
           LET t == get("/v1/accounts", NoneParams, http)
           IN /\ Transported(t, "get_all_balances", <<>>, http,
                             get_all_balances(t.out))
              /\ UNCHANGED <<avg_buy_prices, signed>>

\* The caller takes the result of the operation: every operation is one
\* synchronous call, and the next one starts after it has returned.
Caller_takes_result ==
    /\ last # Idle
    /\ last' = Idle
    /\ UNCHANGED <<avg_buy_prices, http_calls, invocations, signed>>

(* The order manager *)

OrderOutcomes == Outcomes(OrderObjects)
OrderListOutcomes == Outcomes(OrderLists)
ChanceOutcomes == Outcomes(ChanceObjects)
OptionalVolumes == Volumes \cup {PyNone}
OptionalPrices == Prices \cup {PyNone}

Trading_place_buy_order ==
    /\ Ready
    /\ \E market \in Markets, volume \in OptionalVolumes,
          price \in OptionalPrices, ord_type \in OrdTypes,
          http \in OrderOutcomes :
           LET t == place_buy_order(market, volume, price, ord_type, http)
           IN /\ Transported(t, "place_buy_order",
                             <<market, volume, price, ord_type>>, http, t.out)
              /\ UNCHANGED <<avg_buy_prices, signed>>

Trading_place_sell_order ==
    /\ Ready
    /\ \E market \in Markets, volume \in Volumes,
          price \in OptionalPrices, ord_type \in OrdTypes,
          http \in OrderOutcomes :
           LET t == place_sell_order(market, volume, price, ord_type, http)
           IN /\ Transported(t, "place_sell_order",
                             <<market, volume, price, ord_type>>, http, t.out)
              /\ UNCHANGED <<avg_buy_prices, signed>>

Trading_cancel_order ==
    /\ Ready
    /\ \E order_uuid \in OrderUuids, http \in OrderOutcomes :
           LET t == cancel_order(order_uuid, http)
           IN /\ Transported(t, "cancel_order", <<order_uuid>>, http, t.out)
              /\ UNCHANGED <<avg_buy_prices, signed>>

Trading_get_order_status ==
    /\ Ready
    /\ \E order_uuid \in OrderUuids, http \in OrderListOutcomes \cup OrderOutcomes :
           LET t == get("/v1/order", Dict(<<<<"uuid", PyStr(order_uuid)>>>>), http)
           IN /\ Transported(t, "get_order_status", <<order_uuid>>, http,
                             get_order_status(t.out))
              /\ UNCHANGED <<avg_buy_prices, signed>>

Trading_get_orders ==
    /\ Ready
    /\ \E market \in {PyNone, PyStr("")} \cup {PyStr(m) : m \in Markets},
          state \in {"wait", "done"}, http \in OrderListOutcomes :
           LET t == get_orders(market, state, http)
           IN /\ Transported(t, "get_orders", <<market, state>>, http, t.out)
              /\ UNCHANGED <<avg_buy_prices, signed>>

Trading_get_order_chance ==
    /\ Ready
    /\ \E market \in Markets, http \in ChanceOutcomes :
           LET t == get_order_chance(market, http)
           IN /\ Transported(t, "get_order_chance", <<market>>, http, t.out)
              /\ UNCHANGED <<avg_buy_prices, signed>>

(* The transport, called directly *)

ParamKeys == {"market", "count"}
ParamValues ==
    [market |-> {PyStr("KRW-BTC"), PyStr("KRW BTC")},
     count |-> {PyInt(30), PyInt(5)}]

\* The dicts of at most MaxParams pairs with distinct keys, in every
\* insertion order, and None.
ParamDicts ==
    UNION {{items \in [1..n -> ParamKeys \X (ParamValues.market \cup ParamValues.count)] :
              /\ \A i \in 1..n : items[i][2] \in ParamValues[items[i][1]]
              /\ \A i, j \in 1..n : i # j => items[i][1] # items[j][1]} :
           n \in 0..MaxParams}
ParamMappings == {NoneParams} \cup {Dict(items) : items \in ParamDicts}
Endpoints == {"/v1/orders/chance"}

Client_get ==
    /\ Ready
    /\ \E endpoint \in Endpoints, params \in ParamMappings,
          http \in ChanceOutcomes :
           LET t == get(endpoint, params, http)
           IN /\ Transported(t, "get", <<endpoint, params>>, http, t.out)
              /\ UNCHANGED <<avg_buy_prices, signed>>

Client_post ==
    /\ Ready
    /\ \E endpoint \in Endpoints, data \in ParamMappings,
          http \in ChanceOutcomes :
           LET t == post(endpoint, data, http)
           IN /\ Transported(t, "post", <<endpoint, data>>, http, t.out)
              /\ UNCHANGED <<avg_buy_prices, signed>>

Client_delete ==
    /\ Ready
    /\ \E endpoint \in Endpoints, params \in ParamMappings,
          http \in ChanceOutcomes :
           LET t == delete(endpoint, params, http)
           IN /\ Transported(t, "delete", <<endpoint, params>>, http, t.out)
              /\ UNCHANGED <<avg_buy_prices, signed>>

(* The market reader: static methods that call requests.get themselves *)

\* An operation that does not use the transport.
Direct(op, args, url, params, http, out) ==
    /\ last' = [op |-> op, args |-> args, http |-> http,
                sent |-> [method |-> "GET", url |-> url, params |-> params],
                out |-> out]
    /\ UNCHANGED <<avg_buy_prices, http_calls, invocations, signed>>

MarketCodeOutcomes == Outcomes({JList(<<[market |-> "KRW-BTC"]>>)})
TickerOutcomes == Outcomes(TickerLists)
CandleOutcomes == Outcomes(CandleLists)
Units == {1, 240}
Counts == {30}

Market_get_market_codes ==
    /\ last = Idle
    /\ \E http \in MarketCodeOutcomes :
           Direct("get_market_codes", <<>>, market_all_url, NoneParams, http,
                  get_market_codes(http))

Market_get_current_price ==
    /\ last = Idle
    /\ \E coin \in Coins, http \in TickerOutcomes :
           Direct("get_current_price", <<coin>>, ticker_url(coin), NoneParams,
                  http, get_current_price(coin, http))

Market_get_minutes_data ==
    /\ last = Idle
    /\ \E coin \in Coins, unit \in Units, count \in Counts,
          http \in CandleOutcomes :
           \E out \in get_minutes_data(http) :
               Direct("get_minutes_data", <<coin, unit, count>>,
                      candle_url("minutes", unit), candle_params(coin, count),
                      http, out)

Market_get_daily_data ==
    /\ last = Idle
    /\ \E coin \in Coins, count \in Counts, http \in CandleOutcomes :
           \E out \in get_daily_data(http) :
               Direct("get_daily_data", <<coin, count>>,
                      candle_url("days", 0), candle_params(coin, count),
                      http, out)

Market_get_weekly_data ==
    /\ last = Idle
    /\ \E coin \in Coins, count \in Counts, http \in CandleOutcomes :
           \E out \in get_weekly_data(http) :
               Direct("get_weekly_data", <<coin, count>>,
                      candle_url("weeks", 0), candle_params(coin, count),
                      http, out)

Market_get_monthly_data ==
    /\ last = Idle
    /\ \E coin \in Coins, count \in Counts, http \in CandleOutcomes :
           \E out \in get_monthly_data(http) :
               Direct("get_monthly_data", <<coin, count>>,
                      candle_url("months", 0), candle_params(coin, count),
                      http, out)

(* The signer, called directly *)

Uuids == {"uuid-a", "uuid-b"}

Signer_create_headers ==
    /\ Len(signed) < MaxSigned
    /\ \E params \in ParamMappings, nonce \in Uuids,
          half_millis \in 0..MaxHalfMillis :
           LET call == [params |-> params, nonce |-> nonce,
                        half_millis |-> half_millis,
                        result |-> _create_headers(params, nonce, half_millis)]
           IN signed' = Append(signed, call)
    /\ UNCHANGED <<avg_buy_prices, http_calls, invocations, last>>

Next ==
    \/ Caller_takes_result
    \/ Account_get_account_info
    \/ Account_get_krw_balance
    \/ Account_get_coin_balance
    \/ Account_get_all_balances
    \/ Trading_place_buy_order
    \/ Trading_place_sell_order
    \/ Trading_cancel_order
    \/ Trading_get_order_status
    \/ Trading_get_orders
    \/ Trading_get_order_chance
    \/ Client_get
    \/ Client_post
    \/ Client_delete
    \/ Market_get_market_codes
    \/ Market_get_current_price
    \/ Market_get_minutes_data
    \/ Market_get_daily_data
    \/ Market_get_weekly_data
    \/ Market_get_monthly_data

Spec == Init /\ [][Next]_vars

\* The signer on its own: a pure function of its params, the nonce drawn and
\* the clock.
SignerNext == Signer_create_headers
SignerSpec == Init /\ [][SignerNext]_vars

---------------------------------------------------------------------------
(* Claims about the account reader *)

\* The operation that has just returned is get_coin_balance.
CoinBalanceReturned == last # Idle /\ last.op = "get_coin_balance"

\* The account fetch reported an error: the transport's error record, or a
\* body that carries an error key.
FetchFailed(l) == contains(l.got.value, "error")

\* The fetch answered an account list.
FetchedList(l) == ~l.got.raised /\ l.got.value.jt = "list"

\* The positions of the records of currency c in the fetched list.
Holding(l, c) ==
    {i \in 1..Len(l.got.value.items) : l.got.value.items[i].currency = c}

\* The first record of currency c in the fetched list.
FirstRecord(l, c) ==
    l.got.value.items[CHOOSE i \in Holding(l, c) : \A j \in Holding(l, c) : i <= j]

\* Python's (x, y) == (0, 0): both are numbers of value zero.
IsZeroPair(pair) ==
    /\ pair[1].t # "None" /\ Tenths(pair[1]) = 0
    /\ pair[2].t # "None" /\ Tenths(pair[2]) = 0

IsNonePair(pair) == pair = <<PyNone, PyNone>>

\* The number, in tenths, that each numeric string of the exchange spells.
Value(s) ==
    CASE s = "0" -> 0
      [] s = "0.5" -> 5
      [] s = "1" -> 10
      [] s = "1.5" -> 15
      [] s = "2" -> 20

\* The average price a record reports: a missing avg_buy_price reads as 0.
ReportedAvg(record) ==
    IF "avg_buy_price" \in DOMAIN record THEN Value(record.avg_buy_price) ELSE 0

\* C1: get_coin_balance(c) returns (None, None) when the account fetch
\* reports an error, (0, 0) when the fetch answers a list with no record of
\* currency c, and the (balance, avg_buy_price) of the first record of c
\* when there is one; it never raises, a failed fetch never gives (0, 0)
\* and a list without c never gives (None, None).
C1_CoinBalanceThreeWay ==
    CoinBalanceReturned =>
        LET c == last.args[1]
            pair == last.out.value
        IN /\ ~last.out.raised
           /\ FetchFailed(last) => IsNonePair(pair) /\ ~IsZeroPair(pair)
           /\ (FetchedList(last) /\ Holding(last, c) = {}) =>
                 IsZeroPair(pair) /\ ~IsNonePair(pair)
           /\ (FetchedList(last) /\ Holding(last, c) # {}) =>
                 /\ pair[1].t = "float" /\ pair[2].t = "float"
                 /\ pair[1].v = Value(FirstRecord(last, c).balance)
                 /\ pair[2].v = ReportedAvg(FirstRecord(last, c))

\* A fetch answered a list that holds other currencies only, and the
\* result was (0, 0).
C1_Witness ==
    /\ CoinBalanceReturned
    /\ FetchedList(last)
    /\ Len(last.got.value.items) = MaxAccounts
    /\ Holding(last, last.args[1]) = {}
    /\ IsZeroPair(last.out.value)

\* Currency c has a cached average price.
Cached(prices, c) == c \in DOMAIN prices

\* The fetched list holds a record of c whose first one reports a positive
\* average price and a positive balance.
PositiveRecord(l, c) ==
    /\ FetchedList(l)
    /\ Holding(l, c) # {}
    /\ ReportedAvg(FirstRecord(l, c)) > 0
    /\ Value(FirstRecord(l, c).balance) > 0

\* One step of the cache of currency c.
CacheStep(c) ==
    LET changed == \/ Cached(avg_buy_prices, c) # Cached(avg_buy_prices', c)
                   \/ /\ Cached(avg_buy_prices, c)
                      /\ avg_buy_prices'[c] # avg_buy_prices[c]
        fetched == /\ last' # Idle /\ last' # last
                   /\ last'.op = "get_coin_balance"
                   /\ last'.args[1] = c
                   /\ PositiveRecord(last', c)
    IN /\ changed => fetched
       /\ fetched => /\ Cached(avg_buy_prices', c)
                     /\ avg_buy_prices'[c] =
                           PyFloat(ReportedAvg(FirstRecord(last', c)))

\* C2: the cached average price of a currency c changes only in a
\* get_coin_balance(c) step whose fetched record of c has a positive
\* avg_buy_price and a positive balance, and is then that avg_buy_price; any
\* other step leaves it as it was, and every cached price is positive.
C2_CacheOnlyPositive ==
    /\ [](\A c \in DOMAIN avg_buy_prices : Tenths(avg_buy_prices[c]) > 0)
    /\ [][\A c \in Currencies : CacheStep(c)]_vars

\* get_coin_balance(c) fetched a record of c with a zero price or a zero
\* balance while a price of c was cached, and the price is still cached.
C2_Witness ==
    /\ CoinBalanceReturned
    /\ FetchedList(last)
    /\ Holding(last, last.args[1]) # {}
    /\ ~PositiveRecord(last, last.args[1])
    /\ Cached(avg_buy_prices, last.args[1])

---------------------------------------------------------------------------
(* Claims about the signer, under SignerSpec *)

\* The claim set inside the bearer token of a recorded call.
ClaimSet(call) == call.result.headers.Authorization[2].claims

\* The key/value pairs of a mapping, whatever their order.
Pairs(params) == {params.items[i] : i \in 1..Len(params.items)}

\* Two recorded calls whose params hold the same pairs, at least one pair.
SamePairs(a, b) ==
    /\ truthy(a.params) /\ truthy(b.params)
    /\ Pairs(a.params) = Pairs(b.params)

\* C3 as stated: two mappings with the same key/value pairs, inserted in
\* any order, get the same query_hash.
C3_HashIgnoresInsertionOrder ==
    \A i, j \in 1..Len(signed) :
        SamePairs(signed[i], signed[j]) =>
            ClaimSet(signed[i]).query_hash = ClaimSet(signed[j]).query_hash

\* C3 as amended: the query_hash is that of the pairs in insertion order.
\* Two mappings with the same pairs in the same order get the same
\* query_hash whatever the nonce and the clock, and two mappings with the
\* same pairs in different orders get different ones.
C3_HashFollowsInsertionOrder ==
    \A i, j \in 1..Len(signed) :
        SamePairs(signed[i], signed[j]) =>
            (ClaimSet(signed[i]).query_hash = ClaimSet(signed[j]).query_hash)
                <=> (signed[i].params.items = signed[j].params.items)

\* Two calls signed the same two pairs in opposite orders, with different
\* hashes.
C3_Witness ==
    /\ Len(signed) = 2
    /\ SamePairs(signed[1], signed[2])
    /\ Len(signed[1].params.items) = 2
    /\ signed[1].params.items # signed[2].params.items
    /\ ClaimSet(signed[1]).query_hash # ClaimSet(signed[2]).query_hash

\* C10: the claim set always holds access_key, nonce and timestamp (the
\* access key of the client, the nonce drawn, the clock rounded to
\* milliseconds); it holds query_hash and query_hash_alg = "SHA512" when
\* the params are non-empty and neither when they are None or empty; the
\* params mapping is left as it was.
C10_ClaimSet ==
    \A i \in 1..Len(signed) :
        LET call == signed[i]
            claims == ClaimSet(call)
        IN /\ {"access_key", "nonce", "timestamp"} \subseteq DOMAIN claims
           /\ claims.access_key = access_key
           /\ claims.nonce = call.nonce
           /\ 2 * claims.timestamp - call.half_millis \in {-1, 0, 1}
           /\ (~call.params.none /\ Len(call.params.items) > 0) =>
                 /\ {"query_hash", "query_hash_alg"} \subseteq DOMAIN claims
                 /\ claims.query_hash_alg = "SHA512"
           /\ (call.params.none \/ Len(call.params.items) = 0) =>
                 DOMAIN claims = {"access_key", "nonce", "timestamp"}
           /\ call.result.params = call.params

\* One call signed the empty dict and one a dict of two pairs.
C10_Witness ==
    /\ Len(signed) = 2
    /\ signed[1].params = Dict(<<>>)
    /\ "query_hash" \notin DOMAIN ClaimSet(signed[1])
    /\ Len(signed[2].params.items) = 2
    /\ "query_hash" \in DOMAIN ClaimSet(signed[2])

---------------------------------------------------------------------------
(* Claims about the transport, under Spec *)

\* The last operation went through the transport.
TransportDone == last # Idle /\ "got" \in DOMAIN last

\* A returned record whose only key is 'error'.
IsErrorRecord(r) ==
    /\ ~r.raised
    /\ r.value.jt = "object"
    /\ DOMAIN r.value.obj = {"error"}

\* The HTTP call ended in a timeout, a connection error or a 4xx/5xx status.
CallFailed(http) ==
    http.net # "ok" \/ http.status \in 400..599

\* C4 as stated: an invocation whose HTTP call fails (timeout, connection
\* error, any status outside 2xx) returns a record with the key 'error'
\* and does not raise; one whose call succeeds returns the parsed body.
C4_Non2xxIsErrorRecord ==
    TransportDone =>
        /\ ~last.got.raised
        /\ (last.http.net # "ok" \/ last.http.status \notin 200..299) =>
               IsErrorRecord(last.got)
        /\ (last.http.net = "ok" /\ last.http.status \in 200..299
            /\ last.http.body # NotJson) =>
               last.got = Return(last.http.body)

\* C4 as amended: an invocation whose HTTP call ends in a timeout, a
\* connection error or a 4xx/5xx status returns a record with the key
\* 'error' and does not raise; one whose response has any other status and
\* a JSON body returns the parsed body unchanged.
C4_ErrorStatusIsErrorRecord ==
    TransportDone =>
        /\ ~last.got.raised
        /\ CallFailed(last.http) => IsErrorRecord(last.got)
        /\ (~CallFailed(last.http) /\ last.http.body # NotJson) =>
               last.got = Return(last.http.body)

\* A post answered with status 500 gave the error record, and the call
\* before it was counted.
C4_Witness ==
    /\ TransportDone
    /\ last.op = "post"
    /\ last.http.net = "ok" /\ last.http.status = 500
    /\ IsErrorRecord(last.got)
    /\ invocations = MaxCalls

---------------------------------------------------------------------------
(* Claims about the order manager, under Spec *)

OrderPlaced == last # Idle /\ last.op \in {"place_buy_order", "place_sell_order"}

\* The keys of a dict and the value under a key.
Keys(d) == {d.items[i][1] : i \in 1..Len(d.items)}
Lookup(d, k) == d.items[CHOOSE i \in 1..Len(d.items) : d.items[i][1] = k][2]

\* The string form of each volume and price of the model.
StringForm(x) ==
    CASE x = PyFloat(5) -> "0.5"
      [] x = PyInt(1) -> "1"
      [] x = PyInt(50000000) -> "50000000"
      [] x = PyFloat(15) -> "1.5"

\* The body is POSTed to the orders endpoint with market, side and ord_type,
\* and any volume or price in it is the string form of the argument.
OrderBodyBasics ==
    LET body == last.sent.json
    IN /\ last.sent.method = "POST"
       /\ last.sent.url = "https://api.bithumb.com/v1/orders"
       /\ ~body.none
       /\ {"market", "side", "ord_type"} \subseteq Keys(body)
       /\ Lookup(body, "market") = PyStr(last.args[1])
       /\ Lookup(body, "side") =
             PyStr(IF last.op = "place_buy_order" THEN "bid" ELSE "ask")
       /\ Lookup(body, "ord_type") = PyStr(last.args[4])
       /\ "volume" \in Keys(body) =>
             Lookup(body, "volume") = PyStr(StringForm(last.args[2]))
       /\ "price" \in Keys(body) =>
             Lookup(body, "price") = PyStr(StringForm(last.args[3]))

\* C5 as stated: the body carries market, side and ord_type; kind 'limit'
\* carries both volume and price, kind 'price' carries price and no
\* volume, kind 'market' carries volume and no price; as strings.
C5_KindFixesFields ==
    OrderPlaced =>
        LET fields == Keys(last.sent.json) \cap {"volume", "price"}
            kind == last.args[4]
        IN /\ OrderBodyBasics
           /\ kind = "limit" => fields = {"volume", "price"}
           /\ kind = "price" => fields = {"price"}
           /\ kind = "market" => fields = {"volume"}

\* C5 as amended: the body carries market, side and ord_type; kind 'limit'
\* carries volume and price, each exactly when the caller supplied it;
\* kind 'price' carries price exactly when supplied and never volume; kind
\* 'market' carries volume exactly when supplied and never price; as
\* strings.
C5_KindAndArgumentsFixFields ==
    OrderPlaced =>
        LET fields == Keys(last.sent.json) \cap {"volume", "price"}
            kind == last.args[4]
            volume == IF last.args[2] # PyNone THEN {"volume"} ELSE {}
            price == IF last.args[3] # PyNone THEN {"price"} ELSE {}
        IN /\ OrderBodyBasics
           /\ kind = "limit" => fields = volume \cup price
           /\ kind = "price" => fields = price
           /\ kind = "market" => fields = volume

\* A limit buy of 0.5 at 50000000 was sent with both fields.
C5_Witness ==
    /\ OrderPlaced
    /\ last.op = "place_buy_order"
    /\ last.args = <<"KRW-BTC", PyFloat(5), PyInt(50000000), "limit">>
    /\ Lookup(last.sent.json, "volume") = PyStr("0.5")
    /\ Lookup(last.sent.json, "price") = PyStr("50000000")

StatusLooked == last # Idle /\ last.op = "get_order_status"

\* C7: get_order_status returns 'error' when the transport's result has the
\* 'error' key, 'unknown' when the fetched order object has no 'state'
\* field, and the object's 'state' value otherwise.
C7_StatusSentinels ==
    (StatusLooked /\ ~last.got.raised /\ last.got.value.jt = "object") =>
        LET order == last.got.value.obj
        IN /\ ~last.out.raised
           /\ "error" \in DOMAIN order => last.out.value = "error"
           /\ ("error" \notin DOMAIN order /\ "state" \notin DOMAIN order) =>
                 last.out.value = "unknown"
           /\ ("error" \notin DOMAIN order /\ "state" \in DOMAIN order) =>
                 last.out.value = order.state

\* An order object without a state field was reported as 'unknown'.
C7_Witness ==
    /\ StatusLooked
    /\ ~last.got.raised
    /\ last.got.value = JObject([uuid |-> "C0101000000001799653"])
    /\ last.out = Return("unknown")

---------------------------------------------------------------------------
(* Claims about failures, under Spec *)

\* The failure modes: a transport failure, a non-success status reported in
\* the JSON body, a response of the wrong shape, an empty list.
ListedFailure(l) ==
    \/ l.http.net # "ok"
    \/ l.http.status \in 400..599
    \/ l.http.body \in ApiErrorObjects
    \/ l.http.body \in OtherObjects
    \/ l.http.body = JList(<<>>)
    \/ (l.op = "get_order_status" /\ l.http.body.jt = "list")

\* C6: every public operation of the market reader, the account reader,
\* the order manager and the transport returns a result value and never
\* raises, for each of the failure modes.
C6_NeverRaises ==
    (last # Idle /\ ListedFailure(last)) => ~last.out.raised

CandleOps ==
    {"get_minutes_data", "get_daily_data", "get_weekly_data", "get_monthly_data"}

\* A candle operation whose response passed raise_for_status and parsed as
\* JSON, so that normalization looked at the parsed data.
CandleNormalized ==
    /\ last # Idle
    /\ last.op \in CandleOps
    /\ last.http.net = "ok"
    /\ ~(last.http.status \in 400..599)
    /\ last.http.body # NotJson

\* The response is an object with a status other than the success sentinel.
ReportsApiError(data) ==
    data.jt = "object" /\ "status" \in DOMAIN data.obj /\ data.obj.status # "0000"

\* The outcome is the API error / the shape-mismatch error.
IsApiError(out) ==
    out.raised /\ out.exc.type = "Exception" /\ out.exc.text[1] = "API error: "
IsShapeError(out) ==
    out.raised /\ out.exc.type = "Exception"
    /\ out.exc.text[1] = "API response is not a list: "

\* The message the server sent, if any.
ServerMessage(data) ==
    IF data = JObject([status |-> "5100", message |-> "Bad Request"])
    THEN "Bad Request" ELSE "Unknown error"

\* C9 as stated: an object with a status other than the success sentinel
\* fails with an API error that carries the server's status code and
\* message, never with the shape-mismatch error; any other response that
\* is not a list fails with the shape-mismatch error.
C9_ApiErrorCarriesStatus ==
    CandleNormalized =>
        LET data == last.http.body
        IN /\ ReportsApiError(data) =>
                 /\ IsApiError(last.out)
                 /\ \E i, j \in 2..Len(last.out.exc.text) :
                        /\ last.out.exc.text[i] = data.obj.status
                        /\ last.out.exc.text[j] = ServerMessage(data)
           /\ (~ReportsApiError(data) /\ data.jt # "list") =>
                 IsShapeError(last.out)

\* C9 as amended: an object with a status other than the success sentinel
\* fails with an API error that carries the server's message ('Unknown
\* error' when there is none) and not its status code, never with the
\* shape-mismatch error; any other response that is not a list fails with
\* the shape-mismatch error, which carries the response.
C9_ApiErrorCarriesMessage ==
    CandleNormalized =>
        LET data == last.http.body
        IN /\ ReportsApiError(data) =>
                 /\ IsApiError(last.out)
                 /\ last.out.exc.text = <<"API error: ", ServerMessage(data)>>
           /\ (~ReportsApiError(data) /\ data.jt # "list") =>
                 /\ IsShapeError(last.out)
                 /\ last.out.exc.text[2] = data

\* A candle request answered {status: "5100", message: "Bad Request"}
\* failed with the API error.
C9_Witness ==
    /\ CandleNormalized
    /\ last.http.body = JObject([status |-> "5100", message |-> "Bad Request"])
    /\ IsApiError(last.out)

---------------------------------------------------------------------------
(* Claims about candle normalization, under Spec *)

\* A candle operation whose response parsed as a list of raw candles.
CandleListFetched == CandleNormalized /\ last.http.body.jt = "list"

\* The day a date string of the exchange names.
DayOf(s) ==
    CASE s = "2024-01-01T09:00:00" -> 1
      [] s = "2024-01-02T09:00:00" -> 2
      [] s = "2024-01-03T09:00:00" -> 3

\* The value a Candle Record holds for an optional field of a raw candle.
Optional(candle, field) ==
    IF field \in DOMAIN candle THEN candle[field] ELSE [t |-> "nan", v |-> 0]

\* `row` is the Candle Record of the raw candle `candle`.
RecordOf(row, candle) ==
    /\ row.date = [t |-> "datetime", v |-> DayOf(candle.candle_date_time_kst)]
    /\ row.open = candle.opening_price
    /\ row.close = candle.trade_price
    /\ row.high = candle.high_price
    /\ row.low = candle.low_price
    /\ "change_rate" \in DOMAIN row =>
          row.change_rate = Optional(candle, "change_rate")
    /\ "volume" \in DOMAIN row =>
          row.volume = Optional(candle, "candle_acc_trade_volume")
    /\ "value" \in DOMAIN row =>
          row.value = Optional(candle, "candle_acc_trade_price")

\* The frame holds exactly the candles of `items`, ascending by date, indexed
\* 0..n-1, with the five mandatory columns and the optional ones that some
\* candle of the response has.
NormalizedFrom(frame, items) ==
    LET n == Len(items)
        has(field) == \E i \in 1..n : field \in DOMAIN items[i]
    IN /\ Len(frame.rows) = n
       /\ \E p \in Permutations(1..n) :
              \A i \in 1..n : RecordOf(frame.rows[i], items[p[i]])
       /\ \A i \in 1..(n - 1) : frame.rows[i].date.v <= frame.rows[i + 1].date.v
       /\ frame.index = [i \in 1..n |-> i - 1]
       /\ frame.columns =
             <<"date", "open", "close", "high", "low">>
             \o (IF has("change_rate") THEN <<"change_rate">> ELSE <<>>)
             \o (IF has("candle_acc_trade_volume") THEN <<"volume">> ELSE <<>>)
             \o (IF has("candle_acc_trade_price") THEN <<"value">> ELSE <<>>)
       /\ \A i \in 1..n :
              DOMAIN frame.rows[i] = {frame.columns[k] : k \in 1..Len(frame.columns)}

\* C11: for every list of n raw candle objects in any timestamp order,
\* normalization returns exactly those n candles sorted ascending by date
\* and indexed 0..n-1, with the five mandatory columns plus only those of
\* change_rate, volume, value that the response contains.
C11_SortedDenseCandles ==
    CandleListFetched =>
        /\ ~last.out.raised
        /\ NormalizedFrom(last.out.value, last.http.body.items)

---------------------------------------------------------------------------
(* Claims about the balance list, under Spec *)

BalancesReturned == last # Idle /\ last.op = "get_all_balances"

\* The Balance Record of a raw account record: floats, with a missing
\* avg_buy_price or locked read as 0.
BalanceRecordOf(record) ==
    [currency |-> record.currency,
     balance |-> [t |-> "float", v |-> Value(record.balance)],
     avg_buy_price |-> [t |-> "float", v |-> ReportedAvg(record)],
     locked |-> [t |-> "float",
                 v |-> IF "locked" \in DOMAIN record
                       THEN Value(record.locked) ELSE 0]]

\* The positions, in list order, of the records with a positive balance.
RECURSIVE PositivePositions(_, _)
PositivePositions(items, from) ==
    IF from > Len(items) THEN <<>>
    ELSE (IF Value(items[from].balance) > 0 THEN <<from>> ELSE <<>>)
         \o PositivePositions(items, from + 1)

\* C12: get_all_balances returns the empty list when the account fetch
\* reports an error, and for an account list returns, in list order, one
\* Balance Record (currency, balance, avg_buy_price, locked, a missing
\* avg_buy_price or locked read as 0) for exactly the records whose balance
\* is strictly positive; no record with balance 0 is in the result.
C12_PositiveBalancesInOrder ==
    BalancesReturned =>
        /\ FetchFailed(last) => last.out = Return(<<>>)
        /\ FetchedList(last) =>
              LET items == last.got.value.items
                  kept == PositivePositions(items, 1)
              IN /\ ~last.out.raised
                 /\ Len(last.out.value) = Len(kept)
                 /\ \A i \in 1..Len(kept) :
                        last.out.value[i] = BalanceRecordOf(items[kept[i]])
                 /\ \A i \in 1..Len(last.out.value) :
                        last.out.value[i].balance.v > 0

\* The list [KRW balance 0, BTC balance 0.5 at 2] gave the BTC record alone.
C12_Witness ==
    /\ BalancesReturned
    /\ FetchedList(last)
    /\ last.got.value.items =
          <<[currency |-> "KRW", balance |-> "0"],
            [currency |-> "BTC", balance |-> "0.5", avg_buy_price |-> "2"]>>
    /\ last.out = Return(<<[currency |-> "BTC",
                            balance |-> [t |-> "float", v |-> 5],
                            avg_buy_price |-> [t |-> "float", v |-> 20],
                            locked |-> [t |-> "float", v |-> 0]]>>)

=============================================================================
